---- MODULE Spec2Model ----
(***************************************************************************)
(* Model of scripts/ai_minutes_generator.py: the extraction pipeline of    *)
(* AIMinutesGenerator (two-tier extraction, HTML rendering, suggestion     *)
(* appendix, local save) and the find-then-create/update publishing of     *)
(* ConfluencePublisher against a remote page store.                        *)
(*                                                                         *)
(* Python values are modelled as follows.                                  *)
(*   dict            a function whose DOMAIN is the set of keys present    *)
(*   list            a sequence                                            *)
(*   Optional[x]     a sequence of length 0 (None) or 1                    *)
(*   str             a string; f-string interpolation is \o                *)
(*   HTML text       a sequence of tokens <<tag, label, value>>, one per   *)
(*                   element the code concatenates, in document order      *)
(***************************************************************************)
EXTENDS Integers, Sequences, FiniteSets, TLC

\* ------------------------------------------------------------------ bounds
\* Longest attendees, individual_updates and action_items list of a record.
MaxItems == 2
\* Longest blockers, decisions and key_discussions list of a record.
MaxBullets == 1
\* Number of process_file runs made one after another against one store.
MaxRuns == 3
\* Number of publish rounds each of the two concurrent publishers makes.
MaxRounds == 2
\* Number of requests of the concurrent publishers the store fails.
MaxFailures == 1

\* ------------------------------------------------------------- dict access
\* dict.get(key, default)
Get(d, k, default) == IF k \in DOMAIN d THEN d[k] ELSE default

\* dict literal built from optional entries: opts[k] = <<>> leaves k out.
MkDict(opts) == [k \in {f \in DOMAIN opts : Len(opts[f]) = 1} |-> opts[k][1]]

EmptyDict == MkDict([none |-> <<>>])

\* ', '.join(list of str)
RECURSIVE Join(_)
Join(names) ==
    IF Len(names) = 0 THEN ""
    ELSE IF Len(names) = 1 THEN names[1]
    ELSE names[1] \o ", " \o Join(Tail(names))

\* Concatenation of the fragments f(1), ..., f(n) produced by a for loop.
RECURSIVE Flatten(_)
Flatten(frags) ==
    IF Len(frags) = 0 THEN <<>> ELSE Head(frags) \o Flatten(Tail(frags))

\* ----------------------------------------------------------------- render
\* One pass of the loop over individual_updates (lines 258-266).
UpdateFragment(update) ==
    << <<"h3", "", Get(update, "name", "Unknown")>>,
       <<"li", "Yesterday:", Get(update, "yesterday", "Not mentioned")>>,
       <<"li", "Today:", Get(update, "today", "Not mentioned")>>,
       <<"li", "Blockers:", Get(update, "blockers", "None")>> >>

\* One pass of the loop over action_items (lines 289-297): one table row.
ActionRow(item) ==
    << <<"tr", "action",
         << Get(item, "action", ""), Get(item, "assignee", "TBD"),
            Get(item, "due_date", "TBD"), Get(item, "priority", "Medium") >> >> >>

\* An optional bullet section: heading and one <li> per entry, only when
\* the list is non-empty (lines 269-274, 301-306, 309-314).
BulletSectionAlways(heading, entries) ==
    << <<"h2", heading, "">> >>
        \o [i \in 1..Len(entries) |-> <<"li", heading, entries[i]>>]

BulletSection(heading, entries) ==
    IF Len(entries) > 0
    THEN << <<"h2", heading, "">> >>
            \o [i \in 1..Len(entries) |-> <<"li", heading, entries[i]>>]
    ELSE <<>>

\* The action items table (lines 277-298).
ActionSection(action_items) ==
    IF Len(action_items) > 0
    THEN << <<"h2", "Action Items", "">>,
            <<"thead", "Action Items",
              <<"Action", "Assignee", "Due Date", "Priority">> >> >>
            \o Flatten([i \in 1..Len(action_items) |-> ActionRow(action_items[i])])
    ELSE <<>>

\* The metrics footer (lines 317-325).
MetricsFooter(meeting_data, action_items, blockers, decisions) ==
    << <<"hr", "", "">>,
       <<"h2", "Meeting Metrics", "">>,
       <<"metric", "Total Attendees:", Len(Get(meeting_data, "attendees", <<>>))>>,
       <<"metric", "Action Items:", Len(action_items)>>,
       <<"metric", "Blockers:", Len(blockers)>>,
       <<"metric", "Decisions:", Len(decisions)>> >>

\* AIMinutesGenerator.format_minutes_as_html; stamp is the value of
\* datetime.now().strftime('%Y-%m-%d %H:%M:%S') read at line 328.
format_minutes_as_html(meeting_data, meeting_date, stamp) ==
    LET blockers     == Get(meeting_data, "blockers", <<>>)
        action_items == Get(meeting_data, "action_items", <<>>)
        decisions    == Get(meeting_data, "decisions", <<>>)
        discussions  == Get(meeting_data, "key_discussions", <<>>)
        updates      == Get(meeting_data, "individual_updates", <<>>)
    IN  << <<"h1", "Stand-up Meeting Minutes - " \o meeting_date, "">>,
           <<"row", "Date", meeting_date>>,
           <<"row", "Type", "Daily Stand-up">>,
           <<"row", "Attendees",
             Join(Get(meeting_data, "attendees", <<"No attendees extracted">>))>>,
           <<"h2", "Executive Summary", "">>,
           <<"p", "summary", Get(meeting_data, "summary", "No summary available.")>>,
           <<"h2", "Individual Updates", "">> >>
        \o Flatten([i \in 1..Len(updates) |-> UpdateFragment(updates[i])])
        \o BulletSection("Blockers/Impediments", blockers)
        \o ActionSection(action_items)
        \o BulletSection("Decisions Made", decisions)
        \o BulletSection("Key Discussion Points", discussions)
        \o MetricsFooter(meeting_data, action_items, blockers, decisions)
        \o << <<"hr", "", "">>,
              <<"em", "Minutes generated automatically on", stamp>> >>

\* ------------------------------------------------------------------ state
VARIABLES
    pc,             \* stage the current run has reached
    args,           \* parsed command line of main()
    day,            \* wall clock: index of the current calendar day
    meeting_date,   \* local of process_and_publish
    meeting_data,   \* the extracted record
    html_content,   \* the rendered document
    suggestions,    \* result of generate_improvement_suggestions
    existing_page,  \* result of find_page_by_title (Optional)
    store,          \* pages held by the remote store, in creation order
    requests,       \* requests sent to the store and the status returned
    completions,    \* completion calls made in this run and their outcome
    files,          \* local files written in this run
    stages,         \* stages of the pipeline entered in this run
    runs,           \* number of runs started
    published,      \* per title, number of runs that published successfully
    exitCode,       \* return value of main(), -1 while running
    rpc, rexisting, rround   \* the two concurrent publishers

vars == << pc, args, day, meeting_date, meeting_data, html_content, suggestions,
           existing_page, store, requests, completions, files, stages, runs,
           published, exitCode, rpc, rexisting, rround >>

\* ----------------------------------------------------------- input values
\* Last calendar day the clock reaches.
MaxDay == 2

\* datetime.now().strftime('%Y-%m-%d')
DateOf(d) == "2024-01-" \o ToString(14 + d)

\* datetime.now().strftime('%Y-%m-%d %H:%M:%S'); the time of day is not modelled.
StampOf(d) == DateOf(d) \o " 09:00:00"

UpdateKeys == <<"name", "yesterday", "today", "blockers">>
ActionKeys == <<"action", "assignee", "due_date", "priority">>

StrList(prefix, n) == [i \in 1..n |-> prefix \o ToString(i)]

\* A list of n dicts that hold the keys whose position is in mask.
DictList(keys, mask, n) ==
    [i \in 1..n |-> [k \in {keys[j] : j \in mask} |-> k \o ToString(i)]]

Lengths == 0..MaxItems
BulletLengths == 0..MaxBullets
Optional(values) == {<<>>} \cup {<<v>> : v \in values}

\* Every record shape json.loads can hand to the renderer: each field absent,
\* empty or populated, list entries holding any subset of their keys.
RecordOf(att, sum, upd, act, blk, dec, dis) ==
    MkDict([attendees |-> att, summary |-> sum, individual_updates |-> upd,
            action_items |-> act, blockers |-> blk, decisions |-> dec,
            key_discussions |-> dis])

\* Command lines of main(): whether the API key and the input file are there,
\* --date, --output-dir, the four Confluence options, --confluence-parent-id.
ArgSets ==
    [key : BOOLEAN, exists : BOOLEAN, date : {"", "2024-01-10"},
     outdir : BOOLEAN, conf : BOOLEAN, parent : {"", "42"}]

NoArgs == [key |-> FALSE, exists |-> FALSE, date |-> "", outdir |-> FALSE,
           conf |-> FALSE, parent |-> ""]

\* ------------------------------------------------- renderer, on its own
InitIdle ==
    /\ args = NoArgs
    /\ day = 1
    /\ suggestions = ""
    /\ existing_page = <<>>
    /\ store = <<>>
    /\ requests = <<>>
    /\ completions = <<>>
    /\ files = {}
    /\ stages = <<>>
    /\ runs = 0
    /\ published = EmptyDict
    /\ exitCode = -1
    /\ rpc = EmptyDict
    /\ rexisting = EmptyDict
    /\ rround = EmptyDict

InitRender ==
    /\ InitIdle
    /\ pc = "render"
    /\ meeting_date \in {DateOf(1)}
    /\ html_content = <<>>
    /\ \E mask \in SUBSET (1..4) :
       \E att \in Optional({StrList("attendee", n) : n \in Lengths}),
          sum \in Optional({"", "Sprint on track."}),
          upd \in Optional({DictList(UpdateKeys, mask, n) : n \in Lengths}),
          act \in Optional({DictList(ActionKeys, mask, n) : n \in Lengths}),
          blk \in Optional({StrList("blocker", n) : n \in BulletLengths}),
          dec \in Optional({StrList("decision", n) : n \in BulletLengths}),
          dis \in Optional({StrList("topic", n) : n \in BulletLengths}) :
            meeting_data = RecordOf(att, sum, upd, act, blk, dec, dis)

RenderOnly ==
    /\ pc = "render"
    /\ html_content' = format_minutes_as_html(meeting_data, meeting_date, StampOf(day))
    /\ pc' = "rendered"
    /\ UNCHANGED << args, day, meeting_date, meeting_data, suggestions,
                    existing_page, store, requests, completions, files, stages,
                    runs, published, exitCode, rpc, rexisting, rround >>

NextRender == RenderOnly

SpecRender == InitRender /\ [][NextRender]_vars

\* ------------------------------------------------------------- extraction
\* A completion call either errors or returns text; the text is held by what
\* json.loads makes of it: <<>> when it is not JSON, <<record>> when it is.
ErrorResponse == [kind |-> "error", parsed |-> <<>>]
TextResponse(parsed) == [kind |-> "text", parsed |-> parsed]

\* The hardcoded record of lines 223-228.
SafeDefault ==
    [attendees    |-> <<"Unable to extract attendees">>,
     summary      |-> "Meeting transcript processed but extraction failed.",
     action_items |-> <<>>,
     blockers     |-> <<>>]

process_transcript_with_ai_retrying(response) ==
    IF response.kind = "text" /\ Len(response.parsed) = 1 THEN "return"
    ELSE "fallback"

\* What the try block of process_transcript_with_ai (lines 174-198) does with
\* the primary response: return the parsed record, fall back to the simplified
\* extraction on json.JSONDecodeError, re-raise anything else.
process_transcript_with_ai(response) ==
    IF response.kind = "error" THEN "raise"
    ELSE IF Len(response.parsed) = 1 THEN "return"
    ELSE "fallback"

simple_ai_extraction_partial(response) ==
    IF response.kind = "text" /\ Len(response.parsed) = 1
    THEN response.parsed[1]
    ELSE EmptyDict

\* simple_ai_extraction (lines 209-228): the parsed record, or the safe
\* default on any exception.
simple_ai_extraction(response) ==
    IF response.kind = "text" /\ Len(response.parsed) = 1
    THEN response.parsed[1]
    ELSE SafeDefault

\* ------------------------------------------------------------- suggestion
SuggestionText(content) == [kind |-> "text", content |-> content]
SuggestionError == [kind |-> "error", content |-> ""]

generate_improvement_suggestions_noisy(response) ==
    IF response.kind = "text" THEN response.content
    ELSE "Suggestions unavailable."

\* generate_improvement_suggestions (lines 345-358).
generate_improvement_suggestions(response) ==
    IF response.kind = "text" THEN response.content ELSE ""

\* The appendix block of lines 376-383.
SuggestionAppendix(text) ==
    << <<"h2", "AI Suggestions for Improvement", "">>,
       <<"macro", "note", text>> >>

\* Lines 375-383 of process_and_publish: `if suggestions:` appends the block.
append_suggestions(html, text) ==
    IF text # "" THEN html \o SuggestionAppendix(text) ELSE html

\* ------------------------------------------------------------- publishing
SpaceKey == "ENG"

\* ConfluencePublisher.format_for_confluence (lines 126-138).
format_for_confluence(html) ==
    << <<"macro", "info", "AI-Generated Meeting Minutes">> >> \o html

StorageBody(content) ==
    [storage |-> [value |-> format_for_confluence(content),
                  representation |-> "storage"]]

\* Payload of create_page (lines 49-69); "" stands for an unset parent id.
create_page_payload(title, content, parent_id, config_parent) ==
    LET payload ==
            [type |-> "page", title |-> title, space |-> [key |-> SpaceKey],
             body |-> StorageBody(content),
             metadata |-> [labels |-> << [name |-> "meeting-minutes"],
                                         [name |-> "standup"],
                                         [name |-> "ai-generated"] >>]]
    IN  IF parent_id # "" \/ config_parent # ""
        THEN payload @@
             [ancestors |->
                << [id |-> IF parent_id # "" THEN parent_id ELSE config_parent] >>]
        ELSE payload

update_page_payload_same_version(title, content, version) ==
    [version |-> [number |-> version], title |-> title, type |-> "page",
     body |-> StorageBody(content)]

\* Payload of update_page (lines 87-97).
update_page_payload(title, content, version) ==
    [version |-> [number |-> version + 1], title |-> title, type |-> "page",
     body |-> StorageBody(content)]

\* Query of find_page_by_title (lines 112-116).
find_page_params(title) ==
    [spaceKey |-> SpaceKey, title |-> title, expand |-> "version"]

\* find_page_by_title (lines 118-124): the first result of a 200 response,
\* None for an empty result list and for every other status.
find_page_by_title(status, results) ==
    IF status = 200 /\ Len(results) > 0 THEN <<results[1]>> ELSE <<>>

write_result_lenient(status) == "return"

\* create_page (lines 73-79) and update_page (lines 101-107): page_data on
\* status 200, an exception on any other status.
write_result(status) == IF status = 200 THEN "return" ELSE "raise"

\* Line 387.
TitleOf(date) == "Stand-up Minutes - " \o date

\* Lines 363-364 and 151-152: `if not meeting_date` takes today's date.
EffectiveDate(date, today) == IF date = "" THEN DateOf(today) ELSE date

\* The meeting date process_file hands to process_and_publish (line 431):
\* the call passes the transcript only.
process_file_date(cli) == ""

\* ------------------------------------------------------- the remote store
\* Statuses the store answers with: success, or a failure.
Statuses == {200, 500}

\* list-by-title: the pages of the space with that title, oldest first.
StoreResults(pages, title) == SelectSeq(pages, LAMBDA p : p.title = title)

\* A successful create adds a page at version 1.
StoreCreate(pages, payload) ==
    Append(pages, [id |-> Len(pages) + 1, title |-> payload.title,
                   version |-> [number |-> 1]])

\* A successful update stores the title and the version number requested.
StoreUpdate(pages, id, payload) ==
    [i \in 1..Len(pages) |->
        IF pages[i].id = id
        THEN [pages[i] EXCEPT !.title = payload.title,
                              !.version = payload.version]
        ELSE pages[i]]

\* ------------------------------------------------------ the pipeline runs
\* Scenario A: a full record with two action items and no blockers.
FullRecord ==
    RecordOf(<<StrList("attendee", 2)>>, <<"Sprint on track.">>,
             <<DictList(UpdateKeys, 1..4, 1)>>, <<DictList(ActionKeys, 1..4, 2)>>,
             <<<<>>>>, <<StrList("decision", 1)>>, <<>>)

\* A record of the four-field schema the simplified prompt asks for.
FourFieldRecord ==
    RecordOf(<<StrList("attendee", 1)>>, <<"Short sync.">>, <<>>,
             <<<<>>>>, <<StrList("blocker", 1)>>, <<>>, <<>>)

PrimaryResponses ==
    {ErrorResponse, TextResponse(<<>>), TextResponse(<<FullRecord>>),
     TextResponse(<<EmptyDict>>)}

SimpleResponses ==
    {ErrorResponse, TextResponse(<<>>), TextResponse(<<FourFieldRecord>>)}

SuggestionResponses ==
    {SuggestionError, SuggestionText(""), SuggestionText("Timebox the updates.")}

Init ==
    /\ InitIdle
    /\ pc = "idle"
    /\ meeting_date = ""
    /\ meeting_data = EmptyDict
    /\ html_content = <<>>

\* main() up to the call of process_file (lines 469-503).
Main ==
    /\ pc = "idle"
    /\ runs < MaxRuns
    /\ \E a \in ArgSets :
        /\ args' = a
        /\ IF a.key /\ a.exists
           THEN pc' = "read" /\ exitCode' = -1
           ELSE pc' = "idle" /\ exitCode' = 1
    /\ runs' = runs + 1
    /\ meeting_date' = ""
    /\ meeting_data' = EmptyDict
    /\ html_content' = <<>>
    /\ suggestions' = ""
    /\ existing_page' = <<>>
    /\ requests' = <<>>
    /\ completions' = <<>>
    /\ files' = {}
    /\ stages' = <<>>
    /\ UNCHANGED << day, store, published, rpc, rexisting, rround >>

\* process_file reads the transcript (lines 417-428) and enters
\* process_and_publish, which fixes the meeting date (lines 363-364).
ReadInput ==
    /\ pc = "read"
    /\ \E readable \in BOOLEAN :
        pc' = IF readable THEN "primary" ELSE "failed"
    /\ meeting_date' = EffectiveDate(process_file_date(args), day)
    /\ UNCHANGED << args, day, meeting_data, html_content, suggestions,
                    existing_page, store, requests, completions, files, stages,
                    runs, published, exitCode, rpc, rexisting, rround >>

\* The primary completion call of process_transcript_with_ai.
PrimaryCall ==
    /\ pc = "primary"
    /\ \E r \in PrimaryResponses :
        LET what == process_transcript_with_ai(r)
        IN  /\ completions' = Append(completions, [tier |-> "primary", response |-> r])
            /\ meeting_data' = IF what = "return" THEN r.parsed[1] ELSE meeting_data
            /\ pc' = CASE what = "return"   -> "render"
                       [] what = "fallback" -> "simple"
                       [] OTHER             -> "failed"
    /\ stages' = Append(stages, "extraction")
    /\ UNCHANGED << args, day, meeting_date, html_content, suggestions,
                    existing_page, store, requests, files, runs, published,
                    exitCode, rpc, rexisting, rround >>

\* The completion call of simple_ai_extraction.
SimpleCall ==
    /\ pc = "simple"
    /\ \E r \in SimpleResponses :
        /\ completions' = Append(completions, [tier |-> "simple", response |-> r])
        /\ meeting_data' = simple_ai_extraction(r)
    /\ pc' = "render"
    /\ UNCHANGED << args, day, meeting_date, html_content, suggestions,
                    existing_page, store, requests, files, stages, runs,
                    published, exitCode, rpc, rexisting, rround >>

\* Line 371.
Render ==
    /\ pc = "render"
    /\ html_content' = format_minutes_as_html(meeting_data, meeting_date, StampOf(day))
    /\ stages' = Append(stages, "rendering")
    /\ pc' = "suggest"
    /\ UNCHANGED << args, day, meeting_date, meeting_data, suggestions,
                    existing_page, store, requests, completions, files, runs,
                    published, exitCode, rpc, rexisting, rround >>

\* Lines 374-383, and the branch of line 386.
Suggest ==
    /\ pc = "suggest"
    /\ \E r \in SuggestionResponses :
        LET text == generate_improvement_suggestions(r)
        IN  /\ completions' = Append(completions, [tier |-> "suggest", response |-> r])
            /\ suggestions' = text
            /\ html_content' = append_suggestions(html_content, text)
    /\ stages' = Append(stages, "suggestion")
    /\ pc' = IF args.conf THEN "lookup" ELSE "save"
    /\ UNCHANGED << args, day, meeting_date, meeting_data, existing_page, store,
                    requests, files, runs, published, exitCode, rpc, rexisting,
                    rround >>

\* The GET of find_page_by_title and the store's answer to it: the status and,
\* on success, the result list.
LookupRequest(who, title, status, pages) ==
    [by |-> who, method |-> "GET", target |-> 0,
     payload |-> find_page_params(title), status |-> status,
     results |-> IF status = 200 THEN StoreResults(pages, title) ELSE <<>>]

\* Line 390.
Lookup ==
    /\ pc = "lookup"
    /\ \E status \in Statuses :
        LET title == TitleOf(meeting_date)
            request == LookupRequest(runs, title, status, store)
        IN  /\ requests' = Append(requests, request)
            /\ existing_page' = find_page_by_title(status, request.results)
    /\ stages' = Append(stages, "lookup")
    /\ pc' = "write"
    /\ UNCHANGED << args, day, meeting_date, meeting_data, html_content,
                    suggestions, store, completions, files, runs, published,
                    exitCode, rpc, rexisting, rround >>

WriteRequestRechecking(who, existing, title, content, config_parent, status) ==
    LET current == find_page_by_title(200, StoreResults(store, title))
    IN  IF Len(current) = 1
        THEN [by |-> who, method |-> "PUT", target |-> current[1].id,
              payload |-> update_page_payload(title, content,
                                              current[1].version.number),
              status |-> status, results |-> <<>>]
        ELSE [by |-> who, method |-> "POST", target |-> 0,
              payload |-> create_page_payload(title, content, "", config_parent),
              status |-> status, results |-> <<>>]

\* The request process_and_publish issues after the lookup (lines 392-400).
WriteRequest(who, existing, title, content, config_parent, status) ==
    IF Len(existing) = 1
    THEN [by |-> who, method |-> "PUT", target |-> existing[1].id,
          payload |-> update_page_payload(title, content,
                                          existing[1].version.number),
          status |-> status, results |-> <<>>]
    ELSE [by |-> who, method |-> "POST", target |-> 0,
          payload |-> create_page_payload(title, content, "", config_parent),
          status |-> status, results |-> <<>>]

\* The store after answering a write request.
StoreAfter(pages, request) ==
    IF request.status # 200 THEN pages
    ELSE IF request.method = "PUT"
         THEN StoreUpdate(pages, request.target, request.payload)
         ELSE StoreCreate(pages, request.payload)

Bump(counts, k) ==
    IF k \in DOMAIN counts THEN [counts EXCEPT ![k] = @ + 1]
    ELSE counts @@ [t \in {k} |-> 1]

\* Lines 392-407.
Write ==
    /\ pc = "write"
    /\ \E status \in Statuses :
        LET title   == TitleOf(meeting_date)
            request == WriteRequest(runs, existing_page, title, html_content,
                                    args.parent, status)
            raised  == write_result(status) = "raise"
        IN  /\ requests' = Append(requests, request)
            /\ store' = StoreAfter(store, request)
            /\ pc' = IF raised THEN "failed" ELSE "save"
            /\ published' = IF raised THEN published ELSE Bump(published, title)
    /\ stages' = Append(stages, "write")
    /\ UNCHANGED << args, day, meeting_date, meeting_data, html_content,
                    suggestions, existing_page, completions, files, runs,
                    exitCode, rpc, rexisting, rround >>

\* process_file after process_and_publish returned (lines 433-450).
SaveLocal ==
    /\ pc = "save"
    /\ files' = IF args.outdir THEN {"html", "json"} ELSE {}
    /\ stages' = IF args.outdir THEN Append(stages, "save") ELSE stages
    /\ pc' = "done"
    /\ UNCHANGED << args, day, meeting_date, meeting_data, html_content,
                    suggestions, existing_page, store, requests, completions,
                    runs, published, exitCode, rpc, rexisting, rround >>

\* main() returns 0 (lines 505-524).
Finish ==
    /\ pc = "done"
    /\ exitCode' = 0
    /\ pc' = "idle"
    /\ UNCHANGED << args, day, meeting_date, meeting_data, html_content,
                    suggestions, existing_page, store, requests, completions,
                    files, stages, runs, published, rpc, rexisting, rround >>

\* main() catches the exception and returns 1 (lines 526-528).
Abort ==
    /\ pc = "failed"
    /\ exitCode' = 1
    /\ pc' = "idle"
    /\ UNCHANGED << args, day, meeting_date, meeting_data, html_content,
                    suggestions, existing_page, store, requests, completions,
                    files, stages, runs, published, rpc, rexisting, rround >>

\* The wall clock passes midnight.
Tick ==
    /\ day < MaxDay
    /\ day' = day + 1
    /\ UNCHANGED << pc, args, meeting_date, meeting_data, html_content,
                    suggestions, existing_page, store, requests, completions,
                    files, stages, runs, published, exitCode, rpc, rexisting,
                    rround >>

Next ==
    \/ Main \/ ReadInput \/ PrimaryCall \/ SimpleCall \/ Render \/ Suggest
    \/ Lookup \/ Write \/ SaveLocal \/ Finish \/ Abort \/ Tick

Spec == Init /\ [][Next]_vars

\* ------------------------------------------- two publishers, concurrently
\* Two processes run lines 386-400 of process_and_publish for the same title
\* against one store, each MaxRounds times.
Publishers == {1, 2}

\* The statuses the store may still answer with, given the requests so far.
RaceStatuses(log) ==
    IF Len(SelectSeq(log, LAMBDA q : q.status # 200)) < MaxFailures
    THEN Statuses ELSE {200}

RaceDocument == format_minutes_as_html(EmptyDict, DateOf(1), StampOf(1))

InitRace ==
    /\ args = [NoArgs EXCEPT !.key = TRUE, !.exists = TRUE, !.conf = TRUE]
    /\ day = 1
    /\ pc = "publishing"
    /\ meeting_date = DateOf(1)
    /\ meeting_data = EmptyDict
    /\ html_content = RaceDocument
    /\ suggestions = ""
    /\ existing_page = <<>>
    /\ store = <<>>
    /\ requests = <<>>
    /\ completions = <<>>
    /\ files = {}
    /\ stages = <<>>
    /\ runs = 0
    /\ published = EmptyDict
    /\ exitCode = -1
    /\ rpc = [r \in Publishers |-> "lookup"]
    /\ rexisting = [r \in Publishers |-> <<>>]
    /\ rround = [r \in Publishers |-> 1]

\* Line 390, by publisher r.
RaceLookup(r) ==
    /\ rpc[r] = "lookup"
    /\ rround[r] <= MaxRounds
    /\ \E status \in RaceStatuses(requests) :
        LET request == LookupRequest(r, TitleOf(meeting_date), status, store)
        IN  /\ requests' = Append(requests, request)
            /\ rexisting' = [rexisting EXCEPT
                                ![r] = find_page_by_title(status, request.results)]
    /\ rpc' = [rpc EXCEPT ![r] = "write"]
    /\ UNCHANGED << pc, args, day, meeting_date, meeting_data, html_content,
                    suggestions, existing_page, store, completions, files,
                    stages, runs, published, exitCode, rround >>

\* Lines 392-400, by publisher r.
RaceWrite(r) ==
    /\ rpc[r] = "write"
    /\ \E status \in RaceStatuses(requests) :
        LET request == WriteRequest(r, rexisting[r], TitleOf(meeting_date),
                                    html_content, args.parent, status)
        IN  /\ requests' = Append(requests, request)
            /\ store' = StoreAfter(store, request)
    /\ rpc' = [rpc EXCEPT ![r] = "lookup"]
    /\ rround' = [rround EXCEPT ![r] = @ + 1]
    /\ UNCHANGED << pc, args, day, meeting_date, meeting_data, html_content,
                    suggestions, existing_page, completions, files, stages,
                    runs, published, exitCode, rexisting >>

NextRace == \E r \in Publishers : RaceLookup(r) \/ RaceWrite(r)

SpecRace == InitRace /\ [][NextRace]_vars

\* ------------------------------------------------ reading a rendered page
\* The tokens of a document with the given tag and label, in order.
Tokens(html, tag, label) ==
    SelectSeq(html, LAMBDA t : t[1] = tag /\ t[2] = label)

TokensTagged(html, tag) == SelectSeq(html, LAMBDA t : t[1] = tag)

HasHeading(html, heading) == Len(Tokens(html, "h2", heading)) > 0

\* Position of the first token with the tag and label, 0 when there is none.
PositionOf(html, tag, label) ==
    LET at == {i \in 1..Len(html) : html[i][1] = tag /\ html[i][2] = label}
    IN  IF at = {} THEN 0 ELSE CHOOSE i \in at : \A j \in at : i <= j

\* The optional sections: field of the record and heading in the document.
SectionHeadings ==
    [blockers        |-> "Blockers/Impediments",
     action_items    |-> "Action Items",
     decisions       |-> "Decisions Made",
     key_discussions |-> "Key Discussion Points"]

\* The metrics footer: label in the document and field counted.
MetricFields ==
    [attendees |-> "Total Attendees:", action_items |-> "Action Items:",
     blockers  |-> "Blockers:",        decisions    |-> "Decisions:"]

\* C5: for every record shape, rendering completes and every missing value
\* shows its documented default: "No attendees extracted" for an absent or
\* empty attendees list, "No summary available." for an absent summary,
\* "Unknown"/"Not mentioned"/"Not mentioned"/"None" for the keys an update
\* lacks and "TBD"/"TBD"/"Medium" for the keys an action item lacks.
C5_DefaultsShown ==
    pc = "rendered" =>
        LET updates == Get(meeting_data, "individual_updates", <<>>)
            items   == Get(meeting_data, "action_items", <<>>)
            names   == TokensTagged(html_content, "h3")
            yest    == Tokens(html_content, "li", "Yesterday:")
            today   == Tokens(html_content, "li", "Today:")
            blocks  == Tokens(html_content, "li", "Blockers:")
            rows    == Tokens(html_content, "tr", "action")
        IN  /\ Len(html_content) > 0
            /\ html_content[Len(html_content)][1] = "em"
            /\ Len(Get(meeting_data, "attendees", <<>>)) = 0
                 => Tokens(html_content, "row", "Attendees")[1][3]
                        = "No attendees extracted"
            /\ "summary" \notin DOMAIN meeting_data
                 => Tokens(html_content, "p", "summary")[1][3]
                        = "No summary available."
            /\ Len(names) = Len(updates) /\ Len(yest) = Len(updates)
            /\ Len(today) = Len(updates) /\ Len(blocks) = Len(updates)
            /\ \A i \in 1..Len(updates) :
                 /\ "name" \notin DOMAIN updates[i] => names[i][3] = "Unknown"
                 /\ "yesterday" \notin DOMAIN updates[i]
                      => yest[i][3] = "Not mentioned"
                 /\ "today" \notin DOMAIN updates[i]
                      => today[i][3] = "Not mentioned"
                 /\ "blockers" \notin DOMAIN updates[i] => blocks[i][3] = "None"
            /\ Len(rows) = Len(items)
            /\ \A i \in 1..Len(items) :
                 /\ "assignee" \notin DOMAIN items[i] => rows[i][3][2] = "TBD"
                 /\ "due_date" \notin DOMAIN items[i] => rows[i][3][3] = "TBD"
                 /\ "priority" \notin DOMAIN items[i] => rows[i][3][4] = "Medium"

\* C6: each of the Blockers, Action Items, Decisions and Key Discussions
\* sections is present exactly when its list is non-empty, the action table
\* has one data row per action item, the Individual Updates heading is always
\* present and followed by one sub-heading per update, and the metrics footer
\* shows the lengths of attendees, action_items, blockers and decisions.
C6_SectionsAndMetrics ==
    pc = "rendered" =>
        LET updates == Get(meeting_data, "individual_updates", <<>>)
            subs    == {i \in 1..Len(html_content) : html_content[i][1] = "h3"}
            head    == PositionOf(html_content, "h2", "Individual Updates")
        IN  /\ \A f \in DOMAIN SectionHeadings :
                 /\ Len(Tokens(html_content, "h2", SectionHeadings[f])) <= 1
                 /\ HasHeading(html_content, SectionHeadings[f])
                      <=> Len(Get(meeting_data, f, <<>>)) > 0
            /\ Len(Tokens(html_content, "tr", "action"))
                 = Len(Get(meeting_data, "action_items", <<>>))
            /\ Len(Tokens(html_content, "h2", "Individual Updates")) = 1
            /\ Cardinality(subs) = Len(updates)
            /\ \A i \in subs : i > head
            /\ \A f \in DOMAIN MetricFields :
                 LET shown == Tokens(html_content, "metric", MetricFields[f])
                 IN  /\ Len(shown) = 1
                     /\ shown[1][3] = Len(Get(meeting_data, f, <<>>))

\* Scenario A: two action items and no blockers give a two-row table and no
\* Blockers section, under an Individual Updates heading without entries.
C6_Witness ==
    /\ pc = "rendered"
    /\ Len(Get(meeting_data, "action_items", <<>>)) = 2
    /\ "blockers" \in DOMAIN meeting_data /\ meeting_data["blockers"] = <<>>
    /\ "individual_updates" \notin DOMAIN meeting_data
    /\ Len(Get(meeting_data, "attendees", <<>>)) = 2
    /\ Len(Tokens(html_content, "tr", "action")) = 2
    /\ ~HasHeading(html_content, "Blockers/Impediments")
    /\ HasHeading(html_content, "Individual Updates")

\* --------------------------------------------------- reading the history
CallsOf(tier) == SelectSeq(completions, LAMBDA c : c.tier = tier)

IsWrite(q) == q.method # "GET"

Writes(log) == SelectSeq(log, IsWrite)

HasAppendix(html) == HasHeading(html, "AI Suggestions for Improvement")

\* The run has ended with an error: the exception is on its way to main(), or
\* main() has returned 1.
RunFailed == pc = "failed" \/ (pc = "idle" /\ exitCode = 1)

\* C1: a run issues at most one write, after its lookup; when the lookup
\* returned a page at version N the write is a PUT to that page's id carrying
\* version N+1, and when it returned no page the write is a POST whose payload
\* has no version field.
C1_UpdateRequestsNextVersion ==
    LET writes == Writes(requests)
    IN  /\ Len(writes) <= 1
        /\ Len(writes) = 1 =>
             /\ Len(requests) = 2
             /\ requests[1].method = "GET"
             /\ LET found == requests[1].results
                    write == requests[2]
                IN  IF Len(found) > 0
                    THEN /\ write.method = "PUT"
                         /\ write.target = found[1].id
                         /\ write.payload.version.number
                                = found[1].version.number + 1
                    ELSE /\ write.method = "POST"
                         /\ "version" \notin DOMAIN write.payload

\* A third run finds the page at version 2 and requests version 3.
C1_Witness ==
    /\ Len(requests) = 2
    /\ Len(requests[1].results) = 1
    /\ requests[1].results[1].version.number = 2
    /\ requests[2].method = "PUT"
    /\ requests[2].payload.version.number = 3

\* C2: the simplified extraction call is made exactly when the primary call
\* returned text that is not JSON; when the primary call errors there is no
\* second call and the run ends with the error; each tier is called at most
\* once.
C2_FallbackOnlyOnDecodeFailure ==
    LET primary == CallsOf("primary")
        simple  == CallsOf("simple")
    IN  /\ Len(primary) <= 1
        /\ Len(simple) <= 1
        /\ Len(simple) = 1 =>
             /\ Len(primary) = 1
             /\ primary[1].response.kind = "text"
             /\ Len(primary[1].response.parsed) = 0
        /\ Len(primary) = 1 =>
             /\ (primary[1].response.kind = "text"
                    /\ Len(primary[1].response.parsed) = 0)
                  => (Len(simple) = 1 \/ pc = "simple")
             /\ primary[1].response.kind = "error"
                  => /\ Len(simple) = 0
                     /\ RunFailed
                     /\ stages = <<"extraction">>
                     /\ Len(completions) = 1

\* The primary call returned text that is not JSON, the simplified call was
\* made and the run completed.
C2_Witness ==
    /\ pc = "done"
    /\ Len(CallsOf("primary")) = 1
    /\ CallsOf("primary")[1].response = TextResponse(<<>>)
    /\ Len(CallsOf("simple")) = 1

\* C3: when the simplified call errors or its response does not parse, the
\* extraction returns the safe-default record and the run goes on to render.
C3_SafeDefaultOnTotalFailure ==
    LET simple == CallsOf("simple")
    IN  (Len(simple) = 1 /\ (simple[1].response.kind = "error"
                                \/ Len(simple[1].response.parsed) = 0))
        => /\ DOMAIN meeting_data
                = {"attendees", "summary", "action_items", "blockers"}
           /\ meeting_data["attendees"] = <<"Unable to extract attendees">>
           /\ meeting_data["summary"]
                = "Meeting transcript processed but extraction failed."
           /\ meeting_data["action_items"] = <<>>
           /\ meeting_data["blockers"] = <<>>
           /\ pc # "simple"
           /\ pc = "render" \/ (Len(stages) >= 2 /\ stages[2] = "rendering")

\* Scenario C: both tiers fail and the run completes on the safe default.
C3_Witness ==
    /\ pc = "done"
    /\ Len(CallsOf("simple")) = 1
    /\ CallsOf("simple")[1].response = ErrorResponse
    /\ meeting_data = SafeDefault

\* C4: a failed suggestion call yields the empty string, leaves the rendered
\* document as it was and lets the run go on to publish, where only the store
\* can still fail it; the appendix is in the document, and in the published
\* body, exactly when the suggestion text is non-empty.
C4_SuggestionFailureAbsorbed ==
    LET calls == CallsOf("suggest")
    IN  Len(calls) = 1 =>
          /\ HasAppendix(html_content) <=> suggestions # ""
          /\ \A i \in 1..Len(requests) :
               IsWrite(requests[i]) =>
                 (HasAppendix(requests[i].payload.body.storage.value)
                    <=> suggestions # "")
          /\ calls[1].response.kind = "error" =>
               /\ suggestions = ""
               /\ \E d \in 1..MaxDay :
                    html_content = format_minutes_as_html(meeting_data,
                                       meeting_date, StampOf(d))
               /\ pc \in {"lookup", "write", "save", "done", "failed", "idle"}
               /\ RunFailed =>
                    /\ Len(Writes(requests)) = 1
                    /\ Writes(requests)[1].status # 200

\* Scenario E: the suggestion call errors, the page is published without the
\* appendix and the run succeeds.
C4_Witness ==
    /\ pc = "idle" /\ exitCode = 0
    /\ args.conf
    /\ Len(CallsOf("suggest")) = 1
    /\ CallsOf("suggest")[1].response.kind = "error"
    /\ Len(Writes(requests)) = 1
    /\ Writes(requests)[1].status = 200
    /\ ~HasAppendix(Writes(requests)[1].payload.body.storage.value)

\* C7: every non-200 status the store returns, on the lookup, the create or
\* the update, fails the run, and no request follows it.
C7_NonSuccessIsFatal ==
    \A i \in 1..Len(requests) :
        requests[i].status # 200 => (i = Len(requests) /\ RunFailed)

\* The stage that precedes a stage of a run.
StageBefore(stage) ==
    CASE stage = "rendering"  -> "extraction"
      [] stage = "suggestion" -> "rendering"
      [] stage = "lookup"     -> "suggestion"
      [] stage = "write"      -> "lookup"
      [] stage = "save"       -> IF args.conf THEN "write" ELSE "suggestion"
      [] OTHER                -> "none"

\* C8: the stages of a run come in the order extraction, rendering,
\* suggestion, lookup, create-or-update, local save; with a publisher
\* configured, a failed publish leaves no local file, and local files are
\* written only after the publish succeeded.
C8_StagesInOrder ==
    /\ \A i \in 1..Len(stages) :
         IF i = 1 THEN stages[i] = "extraction"
         ELSE stages[i - 1] = StageBefore(stages[i])
    /\ args.conf =>
         /\ (\E i \in 1..Len(requests) :
                IsWrite(requests[i]) /\ requests[i].status # 200)
              => files = {}
         /\ files # {} =>
              /\ files = {"html", "json"}
              /\ Len(Writes(requests)) = 1
              /\ Writes(requests)[1].status = 200
    /\ files # {} => stages[Len(stages)] = "save"

\* A run with a publisher and an output directory whose publish failed: it
\* ended with exit code 1 and no local file.
C8_Witness ==
    /\ pc = "idle" /\ exitCode = 1
    /\ args.conf /\ args.outdir
    /\ Len(Writes(requests)) = 1
    /\ Writes(requests)[1].status # 200
    /\ files = {}
    /\ stages = <<"extraction", "rendering", "suggestion", "lookup", "write">>

\* C9: after k >= 1 successful runs publishing a title the store did not hold
\* at first, the store holds exactly one page with that title, at version k.
C9_OnePagePerTitle ==
    \A t \in DOMAIN published :
        LET pages == StoreResults(store, t)
        IN  /\ Len(pages) = 1
            /\ pages[1].version.number = published[t]

\* ------------------------------------------------------------- the race
\* The lookup on which the write at position j of the log was decided.
LookupBefore(log, j) ==
    LET mine == {i \in 1..(j - 1) : log[i].by = log[j].by /\ ~IsWrite(log[i])}
    IN  CHOOSE i \in mine : \A k \in mine : k <= i

\* The writes at j1 < j2 come from different publishers and both lookups
\* were answered before either write.
Overlapping(log, j1, j2) ==
    /\ j1 < j2
    /\ IsWrite(log[j1]) /\ IsWrite(log[j2])
    /\ log[j1].by # log[j2].by
    /\ LookupBefore(log, j2) < j1

\* C10: lookup and write are not atomic. Whenever two publishers of one title
\* both look up before either writes and get the same answer, both act on it:
\* both create when no page was returned, and both request version N+1 of
\* the same page when version N was returned.
C10_LookupThenWriteNotAtomic ==
    \A j1, j2 \in 1..Len(requests) :
        (/\ Overlapping(requests, j1, j2)
         /\ requests[LookupBefore(requests, j1)].results
              = requests[LookupBefore(requests, j2)].results)
        => LET seen == requests[LookupBefore(requests, j1)].results
               w1   == requests[j1]
               w2   == requests[j2]
           IN  IF Len(seen) = 0
               THEN /\ w1.method = "POST" /\ w2.method = "POST"
                    /\ w1.payload.title = w2.payload.title
               ELSE /\ w1.method = "PUT" /\ w2.method = "PUT"
                    /\ w1.target = seen[1].id /\ w2.target = seen[1].id
                    /\ w1.payload.version.number = seen[1].version.number + 1
                    /\ w2.payload.version.number = seen[1].version.number + 1

\* Both lookups answered "no page" and both publishers created the title.
CreateRace(log, j1, j2) ==
    /\ Overlapping(log, j1, j2)
    /\ \A j \in {j1, j2} :
         /\ log[j].method = "POST"
         /\ log[LookupBefore(log, j)].status = 200
         /\ Len(log[LookupBefore(log, j)].results) = 0
    /\ log[j1].payload.title = log[j2].payload.title

\* Both lookups returned the page at one version N and both publishers
\* requested version N+1.
UpdateRace(log, j1, j2) ==
    /\ Overlapping(log, j1, j2)
    /\ \A j \in {j1, j2} :
         /\ log[j].method = "PUT"
         /\ Len(log[LookupBefore(log, j)].results) > 0
         /\ log[j].payload.version.number
              = log[LookupBefore(log, j)].results[1].version.number + 1
    /\ log[j1].target = log[j2].target
    /\ log[j1].payload.version.number = log[j2].payload.version.number

\* One history of the two publishers holds both races.
C10_Witness ==
    /\ \E j1, j2 \in 1..Len(requests) : CreateRace(requests, j1, j2)
    /\ \E j1, j2 \in 1..Len(requests) : UpdateRace(requests, j1, j2)

\* ------------------------------------------------------------ the title
\* C11: the title sent with the lookup and with the create or update is
\* "Stand-up Minutes - " followed by the run's meeting date, the date the
\* document heading shows; a run started with --date D uses D, and the
\* current date is taken only when no date was given.
C11_TitleUsesMeetingDate ==
    LET date == IF args.date # "" THEN args.date ELSE meeting_date
    IN  /\ \A i \in 1..Len(requests) :
             requests[i].payload.title = "Stand-up Minutes - " \o date
        /\ Len(html_content) > 0 =>
             /\ html_content[1][2] = "Stand-up Meeting Minutes - " \o date
             /\ html_content[2][3] = date
        /\ (args.date = "" /\ pc \notin {"idle", "read"}) =>
             \E d \in 1..day : meeting_date = DateOf(d)

====
